---- MODULE Spec2Model ----
(***************************************************************************)
(* A model of the WASIX dynamic loader (state/dl.rs, syscalls/wasix/       *)
(* dlopen.rs) and of the process execution engine (bin_factory/exec.rs).   *)
(*                                                                         *)
(* Four specifications share the module: SpecDl drives the loader          *)
(* syscalls of one guest process, SpecExec drives spawn / run_exec /       *)
(* call_module and the deep-sleep continuation of one guest task,          *)
(* SpecClone follows a loader registry and a clone of it, and SpecLock     *)
(* follows the DlState operations of the guest's threads instruction by    *)
(* instruction around the lock of the module map.                          *)
(*                                                                         *)
(* Representation choices:                                                 *)
(*  - linear memory is a function 0..MemSize-1 -> 0..255;                  *)
(*  - a u32 / u64 value is its little-endian byte sequence (4 / 8 bytes),  *)
(*    so that widths and zero extension are visible and nothing overflows; *)
(*  - usize is scaled from 2^64 to UsizeModulus;                           *)
(*  - an unchecked raw read past the end of memory is undefined behaviour: *)
(*    it is a choice between a fault and any bytes from GarbageBytes.      *)
(***************************************************************************)
EXTENDS Integers, Sequences, FiniteSets, TLC

VARIABLES
    \* ---- loader (DlState, dl.rs:9-18) and the guest's linear memory
    modules,        \* DlState.modules: handle -> ModuleData
    next_handle,    \* DlState.next_handle
    last_error,     \* DlState.last_error
    mem,            \* the primary instance's linear memory
    primary_exports_memory, \* whether the primary instance exports "memory"
    ctor_calls,     \* handle -> number of __wasm_call_ctors invocations
    issued,         \* the handles add_module has returned, in order
    sys,            \* the last loader syscall: its arguments and what it did
    crashed,        \* the process faulted (outcome of an out-of-bounds raw read)
    copy,           \* a DlState made by DlState::clone, if any
    active,         \* the instance the environment's instance handles point at
    guard,          \* the thread holding the lock of DlState.modules (0: nobody)
    stack,          \* per thread: the DlState operations it is inside, innermost last
    \* ---- execution engine (exec.rs)
    pc,             \* where the guest task is
    status,         \* the thread handle's status cell
    on_exit,        \* the codes on_exit / blocking_on_exit was run with
    recycle_runs,   \* invocations of the recycler callback
    has_recycle,    \* props.recycle is Some
    taint,          \* reasons passed to runtime.on_taint
    exports,        \* entry functions the primary module exports
    start_calls,    \* invocations of _start
    pending,        \* the continuation held by the task manager
    applied,        \* the (rewind, result) pairs rewind_ext was called with
    sleeps,         \* the DeepSleep outcomes of _start, in order
    resolved,       \* the values the triggers resolved with, in order
    act,            \* what the last call_module invocation did
    entry,          \* the entry steps run_exec took, in order, with their results
    spawn           \* result of spawn_exec

dlVars == <<modules, next_handle, last_error, mem, primary_exports_memory,
            ctor_calls, issued, sys, crashed>>
execVars == <<pc, status, on_exit, recycle_runs, has_recycle, taint, exports,
              start_calls, pending, applied, sleeps, resolved, act, entry, spawn>>
cloneVars == <<copy>>
envVars == <<active>>
lockVars == <<guard, stack>>
vars == <<dlVars, cloneVars, envVars, lockVars, execVars>>

----------------------------------------------------------------------------
\* Bounds of the model

Threads == {1, 2}       \* guest threads sharing one DlState

MemSize == 16           \* bytes of linear memory
MaxModules == 2         \* add_module calls explored
MaxSleeps == 2          \* DeepSleep outcomes explored per task

UsizeModulus == 2^30    \* stands for 2^64 (usize on a 64-bit host)
GarbageBytes == {0, 255} \* what an out-of-bounds byte may read as

----------------------------------------------------------------------------
\* Values

\* little-endian bytes of a non-negative integer, n bytes wide
RECURSIVE LeBytes(_, _)
LeBytes(v, n) == IF n = 0 THEN <<>> ELSE <<v % 256>> \o LeBytes(v \div 256, n - 1)

\* `value as u64` for a u32 given by its bytes: zero extension
ZeroExtend(bytes) == bytes \o [i \in 1..(8 - Len(bytes)) |-> 0]

None == [kind |-> "none", val |-> <<>>]
Some(v) == [kind |-> "some", val |-> v]
Fault == [kind |-> "fault", val |-> <<>>]

----------------------------------------------------------------------------
\* The host file system and the compiled side modules it holds.
\* A library is what Module::from_binary / Instance::new make of a file.

PathSide == "/lib/side.wasm"
PathCtor == "/lib/ctor.wasm"
PathTrap == "/lib/trap.wasm"
PathJunk == "/lib/junk.bin"
PathUnlinkable == "/lib/unlinkable.wasm"
PathAbsent == "/lib/absent.wasm"

\* std::fs::read(&path): the file's content, or an I/O error
FsRead(path) ==
    CASE path = PathSide -> [ok |-> TRUE, bytes |-> "side"]
      [] path = PathCtor -> [ok |-> TRUE, bytes |-> "ctor"]
      [] path = PathTrap -> [ok |-> TRUE, bytes |-> "trap"]
      [] path = PathJunk -> [ok |-> TRUE, bytes |-> "junk"]
      [] path = PathUnlinkable -> [ok |-> TRUE, bytes |-> "unlinkable"]
      [] OTHER -> [ok |-> FALSE, bytes |-> ""]

\* Module::from_binary succeeds
Compiles(bytes) == bytes \in {"side", "ctor", "trap", "unlinkable"}

\* Instance::new succeeds (the imports satisfy the module)
Instantiates(lib) == lib \in {"side", "ctor", "trap"}

\* exported globals of an instance of lib: name -> type and value.
\* g is the side module of the dl_open scenario: an i32 global holding an
\* 8-aligned in-bounds offset.
Globals(lib) ==
    CASE lib = "side" ->
            [n \in {"g", "g1", "glast", "goob", "gneg", "g64", "gf"} |->
                CASE n = "g"     -> [type |-> "i32", value |-> 8]
                  [] n = "g1"    -> [type |-> "i32", value |-> 5]
                  [] n = "glast" -> [type |-> "i32", value |-> MemSize - 1]
                  [] n = "goob"  -> [type |-> "i32", value |-> MemSize]
                  [] n = "gneg"  -> [type |-> "i32", value |-> -1]
                  [] n = "g64"   -> [type |-> "i64", value |-> 0]
                  [] n = "gf"    -> [type |-> "f32", value |-> 0]]
      [] lib = "ctor" -> [n \in {"g"} |-> [type |-> "i32", value |-> 0]]
      [] lib = "trap" -> [n \in {"g"} |-> [type |-> "i32", value |-> 4]]

\* exported functions of an instance of lib
Functions(lib) ==
    CASE lib = "side" -> {"fn"}
      [] lib = "ctor" -> {"__wasm_call_ctors", "__wasm_call_dtors"}
      [] lib = "trap" -> {"__wasm_call_ctors"}

\* the result of calling the library's __wasm_call_ctors
CtorCall(lib) == IF lib = "trap" THEN "trap" ELSE "ok"

Symbols == {"g", "g1", "glast", "goob", "gneg", "g64", "gf", "fn", "nosuch"}

\* the memory of the dl_open scenario: every 8-aligned 8 bytes hold
\* 0x0011223344556677 little-endian
InitMem == [i \in 0..(MemSize - 1) |-> 119 - 17 * (i % 8)]

\* Memory handles name memory objects; a clone of a handle names the same
\* object. The object the primary instance exports as "memory":
PrimaryMemory == "primary"

\* memory.view(&store): the bytes of the object a handle names (an object
\* other than the primary's is one no guest has written to)
View(memory) == IF memory = PrimaryMemory THEN mem ELSE [i \in 0..(MemSize - 1) |-> 0]

----------------------------------------------------------------------------
\* DlState (dl.rs)

\* AtomicU32::fetch_add(1): the value stored back
fetch_add_unchanged(n) == n
fetch_add(n) == n + 1

\* `v as usize` of an i32 / i64 global value: sign extension, then
\* reinterpretation as unsigned
AsUsize(v) == IF v < 0 THEN UsizeModulus + v ELSE v

\* std::slice::from_raw_parts(view.data_ptr().add(offset), n) and the read of
\* the n bytes: no bounds check. In bounds it is the bytes of memory; a byte at
\* or past memory_size is undefined behaviour.
RawRead(m, offset, n) ==
    IF offset + n <= MemSize
    THEN {Some([i \in 1..n |-> m[offset + i - 1]])}
    ELSE {Fault} \cup
         {Some([i \in 1..n |-> IF offset + i - 1 < MemSize
                                THEN m[offset + i - 1] ELSE g]) : g \in GarbageBytes}

\* the byte ranges get_symbol reads: offset and width
ReadWidth == 4

\* a call_constructors that gives up at the first constructor that fails
\* (taking the modules in handle order)
call_constructors_until_failure(mods, cc) ==
    [h \in DOMAIN mods |->
        IF /\ "__wasm_call_ctors" \in Functions(mods[h].lib)
           /\ \A k \in DOMAIN mods :
                 k < h /\ "__wasm_call_ctors" \in Functions(mods[k].lib)
                    => CtorCall(mods[k].lib) = "ok"
        THEN cc[h] + 1 ELSE cc[h]]

\* call_constructors: every registered module that exports __wasm_call_ctors
\* has it called, `let _ = ctor.call(store, &[])`: the result is discarded
call_constructors(mods, cc) ==
    [h \in DOMAIN mods |->
        IF "__wasm_call_ctors" \in Functions(mods[h].lib) THEN cc[h] + 1 ELSE cc[h]]

\* the instance handles of the environment (env.inner()): the primary
\* instance, or the instance registered under a handle
PrimaryInstance == [kind |-> "primary", handle |-> 0]
ChildInstance(h) == [kind |-> "child", handle |-> h]

\* the constructor invocations call_constructors makes, each with the instance
\* the environment's handles point at while it runs
constructor_calls(mods, env) ==
    {[handle |-> h, active |-> env] :
        h \in {k \in DOMAIN mods : "__wasm_call_ctors" \in Functions(mods[k].lib)}}

\* the registered modules whose constructor fails when called
TrappingCtors(mods) ==
    {h \in DOMAIN mods : /\ "__wasm_call_ctors" \in Functions(mods[h].lib)
                         /\ CtorCall(mods[h].lib) # "ok"}

\* a ModuleData holding a memory of its own
ModuleData_own_memory(lib, memory) == [lib |-> lib, memory |-> "own"]

\* ModuleData { instance, memory }: memory is a clone of the handle passed in
ModuleData(lib, memory) == [lib |-> lib, memory |-> memory]

\* modules.insert(handle, module_data)
Insert(mods, handle, data) ==
    [h \in DOMAIN mods \cup {handle} |-> IF h = handle THEN data ELSE mods[h]]

\* add_module with the new entry taken out again when its constructor fails
add_module_rollback(lib, memory) ==
    LET handle == next_handle
        mods == Insert(modules, handle, ModuleData(lib, memory))
        cc0 == [h \in DOMAIN mods |-> IF h \in DOMAIN ctor_calls THEN ctor_calls[h] ELSE 0]
        keep == IF handle \in TrappingCtors(mods) THEN DOMAIN modules ELSE DOMAIN mods
    IN [handle |-> handle,
        next_handle |-> fetch_add(next_handle),
        modules |-> [h \in keep |-> mods[h]],
        ctor_calls |-> [h \in keep |-> call_constructors(mods, cc0)[h]]]

\* self.add_module(store, instance, memory) on the DlState `self`: the handle
\* returned and the registry afterwards
DlState_add_module(self, lib, memory) ==
    LET handle == self.next_handle
        mods == Insert(self.modules, handle, ModuleData(lib, memory))
        cc0 == [h \in DOMAIN mods |->
                   IF h \in DOMAIN self.ctor_calls THEN self.ctor_calls[h] ELSE 0]
    IN [handle |-> handle,
        next_handle |-> fetch_add(self.next_handle),
        modules |-> mods,
        ctor_calls |-> call_constructors(mods, cc0)]

\* add_module on the guest's own DlState (env.state.dl)
add_module(lib, memory) ==
    DlState_add_module([modules |-> modules, next_handle |-> next_handle,
                        ctor_calls |-> ctor_calls], lib, memory)

\* a clone that starts from a fresh handle counter
DlState_clone_fresh_counter(self) ==
    [some |-> TRUE, modules |-> self.modules, next_handle |-> 1,
     last_error |-> self.last_error, ctor_calls |-> self.ctor_calls]

\* impl Clone for DlState: the map, the counter and the last error are copied
\* into new cells (the instances in the copied map are the same instances)
DlState_clone(self) ==
    [some |-> TRUE, modules |-> self.modules, next_handle |-> self.next_handle,
     last_error |-> self.last_error, ctor_calls |-> self.ctor_calls]

\* no clone has been made
NoCopy == [some |-> FALSE, modules |-> << >>, next_handle |-> 0, last_error |-> "",
           ctor_calls |-> << >>]

\* get_symbol without the check of the global's type
get_symbol_untyped(handle, symbol) ==
    IF handle \notin DOMAIN modules THEN {None}
    ELSE LET lib == modules[handle].lib IN
         IF symbol \notin DOMAIN Globals(lib) THEN {None}
         ELSE LET g == Globals(lib)[symbol] IN
              {IF r.kind = "some" THEN Some(ZeroExtend(r.val)) ELSE r :
                        r \in RawRead(View(modules[handle].memory), AsUsize(g.value), ReadWidth)}

\* get_symbol: the possible results
get_symbol(handle, symbol) ==
    IF handle \notin DOMAIN modules THEN {None}
    ELSE LET lib == modules[handle].lib IN
         IF symbol \notin DOMAIN Globals(lib) THEN {None}
         ELSE LET g == Globals(lib)[symbol] IN
              IF g.type \notin {"i32", "i64"} THEN {None}
              ELSE {IF r.kind = "some" THEN Some(ZeroExtend(r.val)) ELSE r :
                        r \in RawRead(View(modules[handle].memory), AsUsize(g.value), ReadWidth)}

----------------------------------------------------------------------------
\* Guest-ABI loader syscalls (dlopen.rs)

Flags == {"Now", "Lazy"}
Paths == {PathSide, PathCtor, PathTrap, PathJunk, PathUnlinkable, PathAbsent}

\* what (ptr, len) make of guest memory as a string: a string, a range that
\* leaves memory, or bytes that are not UTF-8
StrArg(strings) ==
    {[kind |-> "ok", str |-> x] : x \in strings} \cup
    {[kind |-> "oob", str |-> ""], [kind |-> "utf8", str |-> ""]}

\* guest pointers the calls are tried with: one in bounds, one whose target
\* leaves memory
HandlePtrs == {0, MemSize - 2}
ValuePtrs == {0, MemSize - 4}

\* WasmPtr::write: bounds-checked store of the bytes at ptr
MemWrite(m, ptr, bytes) ==
    IF ptr + Len(bytes) <= MemSize
    THEN [ok |-> TRUE,
          mem |-> [i \in DOMAIN m |->
                     IF i >= ptr /\ i < ptr + Len(bytes) THEN bytes[i - ptr + 1] ELSE m[i]]]
    ELSE [ok |-> FALSE, mem |-> m]

\* read_utf8_string of a path or symbol argument
read_utf8_string(arg) ==
    IF arg.kind = "ok" THEN [ok |-> TRUE, str |-> arg.str]
    ELSE [ok |-> FALSE, str |-> ""]

\* the record of a loader syscall: the arguments it got as far as reading, the
\* steps it took, what lookup gave, whether it wrote its result to guest memory,
\* the handle it registered (0: none), the constructors it ran and the errno it
\* returned
NoArg == [kind |-> "", str |-> ""]
NoSys == [op |-> "none", flags |-> "", arg |-> NoArg, handle |-> 0, ret |-> "",
          steps |-> <<>>, lookup |-> None, wrote |-> FALSE, registered |-> 0,
          ctors |-> {}]

\* the registry as create_module_instance leaves it
Registry ==
    [modules |-> modules, next_handle |-> next_handle, last_error |-> last_error,
     ctor_calls |-> ctor_calls]

\* create_module_instance: Ok(handle) or Err(errno), the steps taken, and the
\* registry afterwards
create_module_instance(wasm_bytes) ==
    IF ~Compiles(wasm_bytes)
    THEN [ok |-> FALSE, errno |-> "INVAL", handle |-> 0, steps |-> <<"compile">>,
          reg |-> Registry]
    ELSE IF ~primary_exports_memory
    THEN [ok |-> FALSE, errno |-> "INVAL", handle |-> 0, steps |-> <<"compile", "memory">>,
          reg |-> Registry]
    ELSE IF ~Instantiates(wasm_bytes)
    THEN [ok |-> FALSE, errno |-> "INVAL", handle |-> 0,
          steps |-> <<"compile", "memory", "instantiate">>, reg |-> Registry]
    ELSE LET r == add_module(wasm_bytes, PrimaryMemory)
         IN [ok |-> TRUE, errno |-> "SUCCESS", handle |-> r.handle,
             steps |-> <<"compile", "memory", "instantiate", "register">>,
             reg |-> [modules |-> r.modules, next_handle |-> r.next_handle,
                      last_error |-> last_error,
                      ctor_calls |-> r.ctor_calls]]

\* write_handle_to_wasm
write_handle_to_wasm(m, handle_ptr, handle) == MemWrite(m, handle_ptr, LeBytes(handle, 4))

\* the flag check of dlopen
flags_supported_any(dl_flags) == TRUE
flags_supported(dl_flags) == dl_flags = "Now"

\* dlopen: the errno returned, the steps taken in order, and the state afterwards
dlopen_run(pre, flags, path_arg, handle_ptr) ==
    LET base == [NoSys EXCEPT !.op = "dlopen"]
        read_flags == [base EXCEPT !.flags = flags]
        read_path == [read_flags EXCEPT !.arg = path_arg]
        same == [reg |-> Registry, mem |-> mem]
        path == read_utf8_string(path_arg)
        file == FsRead(path.str)
        inst == create_module_instance(file.bytes)
        wr   == write_handle_to_wasm(mem, handle_ptr, inst.handle)
    IN  IF pre # "pass"
        THEN same @@ [sys |-> [base EXCEPT !.ret = "EARLY", !.steps = <<"preamble">>]]
        ELSE IF ~flags_supported(flags)
        THEN same @@ [sys |-> [read_flags EXCEPT !.ret = "NOTSUP",
                                                 !.steps = <<"preamble", "flags">>]]
        ELSE IF ~path.ok
        THEN same @@ [sys |-> [read_path EXCEPT !.ret = "INVAL",
                                                !.steps = <<"preamble", "flags", "path">>]]
        ELSE IF ~file.ok
        THEN same @@ [sys |-> [read_path EXCEPT !.ret = "IO",
                                   !.steps = <<"preamble", "flags", "path", "file">>]]
        ELSE IF ~inst.ok
        THEN same @@ [sys |-> [read_path EXCEPT !.ret = inst.errno,
                          !.steps = <<"preamble", "flags", "path", "file">> \o inst.steps]]
        ELSE [reg |-> inst.reg, mem |-> wr.mem,
              sys |-> [read_path EXCEPT !.ret = IF wr.ok THEN "SUCCESS" ELSE "INVAL",
                          !.steps = <<"preamble", "flags", "path", "file">> \o inst.steps
                                    \o <<"write">>,
                          !.handle = inst.handle, !.registered = inst.handle,
                          !.ctors = constructor_calls(inst.reg.modules, active),
                          !.wrote = wr.ok]]

dlopen(pre, flags, path_arg, handle_ptr) ==
    /\ ~crashed
    /\ next_handle <= MaxModules
    /\ LET r == dlopen_run(pre, flags, path_arg, handle_ptr) IN
        /\ modules' = r.reg.modules
        /\ next_handle' = r.reg.next_handle
        /\ ctor_calls' = r.reg.ctor_calls
        /\ mem' = r.mem
        /\ sys' = r.sys
        /\ issued' = IF r.sys.registered # 0 THEN Append(issued, r.sys.registered) ELSE issued
    /\ UNCHANGED <<last_error, primary_exports_memory, crashed>>
    /\ UNCHANGED <<cloneVars, envVars, lockVars, execVars>>

\* dlsym
dlsym(handle, symbol_arg, ret_ptr) ==
    /\ ~crashed
    /\ LET base == [NoSys EXCEPT !.op = "dlsym", !.handle = handle, !.arg = symbol_arg]
           symbol == read_utf8_string(symbol_arg)
       IN IF ~symbol.ok
          THEN /\ sys' = [base EXCEPT !.ret = "INVAL", !.steps = <<"symbol">>]
               /\ UNCHANGED <<mem, crashed>>
          ELSE \E out \in get_symbol(handle, symbol.str) :
                 CASE out.kind = "none" ->
                        /\ sys' = [base EXCEPT !.ret = "INVAL", !.lookup = out,
                                               !.steps = <<"symbol", "lookup">>]
                        /\ UNCHANGED <<mem, crashed>>
                   [] out.kind = "fault" ->
                        /\ sys' = [base EXCEPT !.ret = "FAULT", !.lookup = out,
                                               !.steps = <<"symbol", "lookup">>]
                        /\ crashed' = TRUE
                        /\ UNCHANGED mem
                   [] OTHER ->
                        LET wr == MemWrite(mem, ret_ptr, out.val) IN
                        /\ sys' = [base EXCEPT !.ret = IF wr.ok THEN "SUCCESS" ELSE "INVAL",
                                               !.lookup = out, !.wrote = wr.ok,
                                               !.steps = <<"symbol", "lookup", "write">>]
                        /\ mem' = wr.mem
                        /\ UNCHANGED crashed
    /\ UNCHANGED <<modules, next_handle, last_error, primary_exports_memory, ctor_calls, issued>>
    /\ UNCHANGED <<cloneVars, envVars, lockVars, execVars>>

\* a dlclose that unregisters the handle
dlclose_unregistering(handle) ==
    /\ ~crashed
    /\ sys' = [NoSys EXCEPT !.op = "dlclose", !.handle = handle, !.ret = "SUCCESS"]
    /\ modules' = [h \in DOMAIN modules \ {handle} |-> modules[h]]
    /\ ctor_calls' = [h \in DOMAIN ctor_calls \ {handle} |-> ctor_calls[h]]
    /\ UNCHANGED <<next_handle, last_error, mem, primary_exports_memory, issued, crashed>>
    /\ UNCHANGED <<cloneVars, envVars, lockVars, execVars>>

\* dlclose: Ok(Errno::Success), nothing else
dlclose(handle) ==
    /\ ~crashed
    /\ sys' = [NoSys EXCEPT !.op = "dlclose", !.handle = handle, !.ret = "SUCCESS"]
    /\ UNCHANGED <<modules, next_handle, last_error, mem, primary_exports_memory,
                   ctor_calls, issued, crashed>>
    /\ UNCHANGED <<cloneVars, envVars, lockVars, execVars>>

\* dlerror: Ok(Errno::Success), nothing else
dlerror(buffer_ptr, nwritten) ==
    /\ ~crashed
    /\ sys' = [NoSys EXCEPT !.op = "dlerror", !.ret = "SUCCESS"]
    /\ UNCHANGED <<modules, next_handle, last_error, mem, primary_exports_memory,
                   ctor_calls, issued, crashed>>
    /\ UNCHANGED <<cloneVars, envVars, lockVars, execVars>>

\* DlState::clone of the guest's registry; the original is only read
clone ==
    /\ ~crashed
    /\ ~copy.some
    /\ copy' = DlState_clone(Registry)
    /\ sys' = [NoSys EXCEPT !.op = "clone"]
    /\ UNCHANGED <<modules, next_handle, last_error, mem, primary_exports_memory,
                   ctor_calls, issued, crashed>>
    /\ UNCHANGED <<envVars, lockVars, execVars>>

\* the owner of the clone registers a module in it
add_module_on_clone(lib) ==
    /\ copy.some
    /\ copy.next_handle <= MaxModules
    /\ LET r == DlState_add_module(copy, lib, PrimaryMemory) IN
         copy' = [copy EXCEPT !.modules = r.modules, !.next_handle = r.next_handle,
                              !.ctor_calls = r.ctor_calls]
    /\ sys' = [NoSys EXCEPT !.op = "add_module_on_clone"]
    /\ UNCHANGED <<modules, next_handle, last_error, mem, primary_exports_memory,
                   ctor_calls, issued, crashed>>
    /\ UNCHANGED <<envVars, lockVars, execVars>>

DlInit ==
    /\ copy = NoCopy
    /\ guard = 0
    /\ stack = [t \in Threads |-> << >>]
    /\ active = PrimaryInstance
    /\ modules = << >>
    /\ next_handle = 1
    /\ last_error = ""
    /\ mem = InitMem
    /\ primary_exports_memory \in BOOLEAN
    /\ ctor_calls = << >>
    /\ issued = << >>
    /\ sys = NoSys
    /\ crashed = FALSE

DlNext ==
    \/ \E pre \in {"pass", "early"}, flags \in Flags, path_arg \in StrArg(Paths),
          handle_ptr \in HandlePtrs : dlopen(pre, flags, path_arg, handle_ptr)
    \/ \E handle \in 0..MaxModules, symbol_arg \in StrArg(Symbols),
          ret_ptr \in ValuePtrs : dlsym(handle, symbol_arg, ret_ptr)
    \/ \E handle \in 0..MaxModules : dlclose(handle)
    \/ \E buffer_ptr \in ValuePtrs, nwritten \in HandlePtrs : dlerror(buffer_ptr, nwritten)

\* the modules a guest can load
Loadable == {b \in {FsRead(p).bytes : p \in {q \in Paths : FsRead(q).ok}} :
                Compiles(b) /\ Instantiates(b)}

\* a registry and its clone: dl_open calls on the original (NOW flag, a path
\* that can be read from guest memory), the clone, and registrations in the
\* clone
CloneNext ==
    \/ \E path \in Paths, handle_ptr \in HandlePtrs :
          dlopen("pass", "Now", [kind |-> "ok", str |-> path], handle_ptr)
    \/ clone
    \/ \E lib \in Loadable : add_module_on_clone(lib)

----------------------------------------------------------------------------
\* DlState operations step by step around the lock of DlState.modules (dl.rs).
\* A thread is inside the operations on its stack; `guard` is the MutexGuard of
\* self.modules. std's Mutex is not reentrant: lock() on a mutex the calling
\* thread already holds does not return, so the step that takes the lock is
\* enabled only while nobody holds it.

Frame(op, at, lib) == [op |-> op, pc |-> at, lib |-> lib, handle |-> 0, todo |-> {}]
Top(t) == stack[t][Len(stack[t])]
At(t, op, at) == stack[t] # << >> /\ Top(t).op = op /\ Top(t).pc = at
SetTop(t, f) == [stack EXCEPT ![t] = [@ EXCEPT ![Len(@)] = f]]
Push(t, f) == [stack EXCEPT ![t] = Append(@, f)]
Pop(t) == [stack EXCEPT ![t] = SubSeq(@, 1, Len(@) - 1)]
Loops == {"call_constructors", "call_destructors"}

\* guest code is running on t: outside the loader, or in the constructor or
\* destructor that a loop of call_constructors / call_destructors is calling
GuestRuns(t) == IF stack[t] = << >> THEN TRUE ELSE Top(t).pc = "calling"

\* the function a loop calls, and the modules exporting it
LoopFunction(op) ==
    IF op = "call_constructors" THEN "__wasm_call_ctors" ELSE "__wasm_call_dtors"
Exporting(fn) == {h \in DOMAIN modules : fn \in Functions(modules[h].lib)}

\* dl_sym on t reaches get_symbol, whose first statement takes the lock
get_symbol_enter(t) ==
    /\ GuestRuns(t)
    /\ stack' = Push(t, Frame("get_symbol", "lock", ""))
    /\ UNCHANGED <<dlVars, guard>>
    /\ UNCHANGED <<cloneVars, envVars, execVars>>

\* dl_open on t reaches add_module
add_module_enter(t, lib) ==
    /\ GuestRuns(t)
    /\ next_handle <= MaxModules
    /\ stack' = Push(t, Frame("add_module", "fetch_add", lib))
    /\ UNCHANGED <<dlVars, guard>>
    /\ UNCHANGED <<cloneVars, envVars, execVars>>

\* the host calls call_destructors from t
call_destructors_enter(t) ==
    /\ stack[t] = << >>
    /\ modules # << >>
    /\ stack' = Push(t, Frame("call_destructors", "lock", ""))
    /\ UNCHANGED <<dlVars, guard>>
    /\ UNCHANGED <<cloneVars, envVars, execVars>>

\* add_module: let handle = self.next_handle.fetch_add(1)
add_module_fetch_add(t) ==
    /\ At(t, "add_module", "fetch_add")
    /\ next_handle' = fetch_add(next_handle)
    /\ stack' = SetTop(t, [Top(t) EXCEPT !.handle = next_handle, !.pc = "lock"])
    /\ UNCHANGED <<modules, last_error, mem, primary_exports_memory, ctor_calls, issued,
                   sys, crashed, guard>>
    /\ UNCHANGED <<cloneVars, envVars, execVars>>

\* self.modules.lock() returns the guard
modules_lock(t) ==
    /\ stack[t] # << >> /\ Top(t).pc = "lock"
    /\ guard = 0
    /\ guard' = t
    /\ stack' = SetTop(t, [Top(t) EXCEPT !.pc = "locked",
                              !.todo = IF Top(t).op \in Loops
                                       THEN Exporting(LoopFunction(Top(t).op)) ELSE {}])
    /\ UNCHANGED dlVars
    /\ UNCHANGED <<cloneVars, envVars, execVars>>

\* get_symbol: modules.get(&handle) and the export lookup, under the guard
get_symbol_get(t) ==
    /\ At(t, "get_symbol", "locked")
    /\ stack' = SetTop(t, [Top(t) EXCEPT !.pc = "read"])
    /\ UNCHANGED <<dlVars, guard>>
    /\ UNCHANGED <<cloneVars, envVars, execVars>>

\* get_symbol: global.get, the read of linear memory, and the return, which
\* drops the guard
get_symbol_return(t) ==
    /\ At(t, "get_symbol", "read")
    /\ guard' = 0
    /\ stack' = Pop(t)
    /\ sys' = [NoSys EXCEPT !.op = "get_symbol"]
    /\ UNCHANGED <<modules, next_handle, last_error, mem, primary_exports_memory,
                   ctor_calls, issued, crashed>>
    /\ UNCHANGED <<cloneVars, envVars, execVars>>

\* add_module: modules.insert(handle, module_data); the guard is dropped at
\* the end of the `if let`, then call_constructors is called
add_module_insert(t) ==
    /\ At(t, "add_module", "locked")
    /\ modules' = Insert(modules, Top(t).handle, ModuleData(Top(t).lib, PrimaryMemory))
    /\ ctor_calls' = [h \in DOMAIN ctor_calls \cup {Top(t).handle} |->
                         IF h \in DOMAIN ctor_calls THEN ctor_calls[h] ELSE 0]
    /\ guard' = 0
    /\ stack' = [stack EXCEPT ![t] = Append([@ EXCEPT ![Len(@)].pc = "return"],
                                             Frame("call_constructors", "lock", ""))]
    /\ UNCHANGED <<next_handle, last_error, mem, primary_exports_memory, issued, sys,
                   crashed>>
    /\ UNCHANGED <<cloneVars, envVars, execVars>>

\* the loop of call_constructors / call_destructors calls the function of the
\* next module (the map is iterated in any order), the guard still held
function_call(t, h) ==
    /\ stack[t] # << >> /\ Top(t).op \in Loops /\ Top(t).pc = "locked"
    /\ h \in Top(t).todo
    /\ stack' = SetTop(t, [Top(t) EXCEPT !.pc = "calling", !.handle = h, !.todo = @ \ {h}])
    /\ ctor_calls' = IF Top(t).op = "call_constructors"
                     THEN [ctor_calls EXCEPT ![h] = @ + 1] ELSE ctor_calls
    /\ UNCHANGED <<modules, next_handle, last_error, mem, primary_exports_memory, issued,
                   sys, crashed, guard>>
    /\ UNCHANGED <<cloneVars, envVars, execVars>>

\* the constructor or destructor returns or traps: `let _ =`, the loop goes on
function_return(t) ==
    /\ stack[t] # << >> /\ Top(t).op \in Loops /\ Top(t).pc = "calling"
    /\ stack' = SetTop(t, [Top(t) EXCEPT !.pc = "locked"])
    /\ UNCHANGED <<dlVars, guard>>
    /\ UNCHANGED <<cloneVars, envVars, execVars>>

\* the loop is over: the guard is dropped and the function returns
loop_end(t) ==
    /\ stack[t] # << >> /\ Top(t).op \in Loops /\ Top(t).pc = "locked"
    /\ Top(t).todo = {}
    /\ guard' = 0
    /\ stack' = Pop(t)
    /\ UNCHANGED dlVars
    /\ UNCHANGED <<cloneVars, envVars, execVars>>

\* add_module returns the handle
add_module_return(t) ==
    /\ At(t, "add_module", "return")
    /\ issued' = Append(issued, Top(t).handle)
    /\ stack' = Pop(t)
    /\ UNCHANGED <<modules, next_handle, last_error, mem, primary_exports_memory,
                   ctor_calls, sys, crashed, guard>>
    /\ UNCHANGED <<cloneVars, envVars, execVars>>



LockNext ==
    \/ \E t \in Threads : get_symbol_enter(t)
    \/ \E t \in Threads, lib \in Loadable : add_module_enter(t, lib)
    \/ \E t \in Threads : call_destructors_enter(t)
    \/ \E t \in Threads : add_module_fetch_add(t)
    \/ \E t \in Threads : modules_lock(t)
    \/ \E t \in Threads : get_symbol_get(t)
    \/ \E t \in Threads : get_symbol_return(t)
    \/ \E t \in Threads : add_module_insert(t)
    \/ \E t \in Threads, h \in 1..MaxModules : function_call(t, h)
    \/ \E t \in Threads : function_return(t)
    \/ \E t \in Threads : loop_end(t)
    \/ \E t \in Threads : add_module_return(t)

----------------------------------------------------------------------------
\* Execution engine (exec.rs): values

Pending == [state |-> "Pending", ok |-> FALSE, val |-> ""]
Running == [state |-> "Running", ok |-> FALSE, val |-> ""]
Finished(ok, val) == [state |-> "Finished", ok |-> ok, val |-> val]

\* rewind payloads a guest may capture, triggers it may wait on and the values
\* they may resolve with
Rewinds == {[id |-> "R1", is_64bit |-> FALSE], [id |-> "R2", is_64bit |-> TRUE]}
Triggers == {"T1", "T2"}
Values == {"V1", "V2"}

NoRewind == [some |-> FALSE, rewind |-> [id |-> "", is_64bit |-> FALSE],
             type |-> "", value |-> ""]
\* Some((rewind_state, rewind_result))
SomeRewind(rewind, type, value) ==
    [some |-> TRUE, rewind |-> rewind, type |-> type, value |-> value]

NoCont == [some |-> FALSE, rewind |-> [id |-> "", is_64bit |-> FALSE], trigger |-> "",
           fired |-> FALSE, value |-> ""]

\* how _start may end
Outcomes ==
    {[kind |-> k, code |-> "", trigger |-> "", rewind |-> [id |-> "", is_64bit |-> FALSE]] :
        k \in {"Ok", "ThreadExit", "UnknownWasiVersion", "RuntimeError"}} \cup
    {[kind |-> "Exit", code |-> c, trigger |-> "", rewind |-> [id |-> "", is_64bit |-> FALSE]] :
        c \in {"Success", "Code7"}} \cup
    {[kind |-> "DeepSleep", code |-> "", trigger |-> t, rewind |-> r] :
        t \in Triggers, r \in Rewinds}

\* the record of the last call_module: whether it was entered, applied a rewind
\* and invoked _start, how _start ended (with the code an Exit carried) and the
\* code on_exit was run with
NoAct == [entered |-> FALSE, rewound |-> FALSE, started |-> FALSE, outcome |-> "",
          exit |-> "", code |-> ""]

\* the part of the state call_module works on
ExecState ==
    [pc |-> pc, status |-> status, on_exit |-> on_exit, recycle_runs |-> recycle_runs,
     taint |-> taint, start_calls |-> start_calls, pending |-> pending,
     applied |-> applied, sleeps |-> sleeps, act |-> act]

----------------------------------------------------------------------------
\* Execution engine: helpers

\* env.on_exit / env.blocking_on_exit(Some(code))
blocking_on_exit(s, code) == [s EXCEPT !.on_exit = Append(@, code)]

\* a run_recycle that never calls the callback
run_recycle_skipped(s) == s

\* run_recycle: the callback, when there is one, is called once
run_recycle(s) == [s EXCEPT !.recycle_runs = IF has_recycle THEN @ + 1 ELSE @]

\* runtime.on_taint(reason)
on_taint(s, reason) == [s EXCEPT !.taint = Append(@, reason)]

\* thread.set_status_finished(result): the first Finished result stands
set_status_finished(s, ok, val) ==
    IF s.status.state = "Finished" THEN s ELSE [s EXCEPT !.status = Finished(ok, val)]

\* thread.set_status_running()
set_status_running(s) == [s EXCEPT !.status = Running]

\* the WasiThreadRunGuard going out of scope: it marks the thread Finished with
\* an error when the task body unwinds, and leaves the status alone on a return
drop_run_guard(s, unwound) ==
    IF unwound THEN set_status_finished(s, FALSE, "Disconnected") ELSE s

\* err.as_exit_code() of the error call_module ends with
as_exit_code(err) ==
    IF err.kind = "Exit" THEN [some |-> TRUE, code |-> err.code]
    ELSE [some |-> FALSE, code |-> ""]

\* the classification with a non-success Exit passed on without a taint
classify_quiet(outcome) ==
    IF outcome.kind \in {"Ok", "ThreadExit"} \/ (outcome.kind = "Exit" /\ outcome.code = "Success")
    THEN [ok |-> TRUE, val |-> "Success", taint |-> <<>>]
    ELSE IF outcome.kind = "Exit"
    THEN [ok |-> FALSE, val |-> outcome.code, taint |-> <<>>]
    ELSE IF outcome.kind = "UnknownWasiVersion"
    THEN [ok |-> TRUE, val |-> "Noexec",
          taint |-> <<[reason |-> "UnknownWasiVersion", code |-> ""]>>]
    ELSE [ok |-> FALSE, val |-> "RuntimeError",
          taint |-> <<[reason |-> "RuntimeError", code |-> ""]>>]

\* the classification of a _start outcome other than DeepSleep: the result
\* `ret` and the taint
classify(outcome) ==
    CASE outcome.kind = "Ok" -> [ok |-> TRUE, val |-> "Success", taint |-> <<>>]
      [] outcome.kind = "Exit" /\ outcome.code = "Success" ->
            [ok |-> TRUE, val |-> "Success", taint |-> <<>>]
      [] outcome.kind = "ThreadExit" -> [ok |-> TRUE, val |-> "Success", taint |-> <<>>]
      [] outcome.kind = "Exit" /\ outcome.code # "Success" ->
            [ok |-> FALSE, val |-> outcome.code,
             taint |-> <<[reason |-> "NonZeroExitCode", code |-> outcome.code]>>]
      [] outcome.kind = "UnknownWasiVersion" ->
            [ok |-> TRUE, val |-> "Noexec",
             taint |-> <<[reason |-> "UnknownWasiVersion", code |-> ""]>>]
      [] OTHER -> [ok |-> FALSE, val |-> "RuntimeError",
                   taint |-> <<[reason |-> "RuntimeError", code |-> ""]>>]

\* `code`: the exit code on_exit is run with
exit_code(outcome, ret) ==
    IF ~ret.ok
    THEN LET c == as_exit_code(outcome) IN IF c.some THEN c.code ELSE "Noexec"
    ELSE "Success"

\* the arguments the respawn closure passes to call_module: the rewind it
\* captured and the result it is invoked with
respawn_without_result(rewind, rewind_result) == SomeRewind(rewind, "RewindWithResult", "")
respawn(rewind, rewind_result) == SomeRewind(rewind, "RewindWithResult", rewind_result)

\* what the DeepSleep arm does with the outcome: with the continuation scheduled
\* the closure (thread guard and recycler inside) waits in the task manager;
\* otherwise the closure is dropped
deep_sleep_recycles(s, deep, schedule_ok) ==
    LET s1 == run_recycle([s EXCEPT !.sleeps = Append(@, [rewind |-> deep.rewind,
                                                          trigger |-> deep.trigger])])
    IN IF schedule_ok
       THEN [s1 EXCEPT !.pc = "suspended",
                       !.pending = [some |-> TRUE, rewind |-> deep.rewind,
                                    trigger |-> deep.trigger, fired |-> FALSE,
                                    value |-> ""]]
       ELSE drop_run_guard([s1 EXCEPT !.pc = "abandoned"], FALSE)
deep_sleep_exits(s, deep, schedule_ok) ==
    LET s1 == blocking_on_exit([s EXCEPT !.sleeps = Append(@, [rewind |-> deep.rewind,
                                                               trigger |-> deep.trigger])],
                               "Success")
    IN IF schedule_ok
       THEN [s1 EXCEPT !.pc = "suspended",
                       !.pending = [some |-> TRUE, rewind |-> deep.rewind,
                                    trigger |-> deep.trigger, fired |-> FALSE,
                                    value |-> ""]]
       ELSE drop_run_guard([s1 EXCEPT !.pc = "abandoned"], FALSE)
deep_sleep_finishes_on_failure(s, deep, schedule_ok) ==
    LET s1 == [s EXCEPT !.sleeps = Append(@, [rewind |-> deep.rewind,
                                              trigger |-> deep.trigger])]
    IN IF schedule_ok
       THEN [s1 EXCEPT !.pc = "suspended",
                       !.pending = [some |-> TRUE, rewind |-> deep.rewind,
                                    trigger |-> deep.trigger, fired |-> FALSE,
                                    value |-> ""]]
       ELSE set_status_finished([s1 EXCEPT !.pc = "abandoned"], FALSE, "Noexec")
deep_sleep(s, deep, schedule_ok) ==
    LET s1 == [s EXCEPT !.sleeps = Append(@, [rewind |-> deep.rewind,
                                              trigger |-> deep.trigger])]
    IN IF schedule_ok
       THEN [s1 EXCEPT !.pc = "suspended",
                       !.pending = [some |-> TRUE, rewind |-> deep.rewind,
                                    trigger |-> deep.trigger, fired |-> FALSE,
                                    value |-> ""]]
       ELSE drop_run_guard([s1 EXCEPT !.pc = "abandoned"], FALSE)

\* the end of call_module for an outcome other than DeepSleep
finish_tainting(s, outcome) ==
    LET ret == classify(outcome)
        code == exit_code(outcome, ret)
        s1 == on_taint(s, [reason |-> "RuntimeError", code |-> ""])
    IN drop_run_guard(set_status_finished(
           run_recycle(blocking_on_exit([s1 EXCEPT !.act.code = code, !.pc = "done"], code)),
           ret.ok, ret.val), FALSE)
finish(s, outcome) ==
    LET ret == classify(outcome)
        code == exit_code(outcome, ret)
        s1 == IF ret.taint = <<>> THEN s ELSE on_taint(s, ret.taint[1])
    IN drop_run_guard(set_status_finished(
           run_recycle(blocking_on_exit([s1 EXCEPT !.act.code = code, !.pc = "done"], code)),
           ret.ok, ret.val), FALSE)

\* call_module
call_module(s, rewind_state, rewind_errno, outcome, schedule_ok) ==
    LET s1 == [set_status_running(s) EXCEPT
                  !.act = [NoAct EXCEPT !.entered = TRUE, !.rewound = rewind_state.some],
                  !.applied = IF rewind_state.some
                              THEN Append(@, [rewind |-> rewind_state.rewind,
                                              type |-> rewind_state.type,
                                              value |-> rewind_state.value,
                                              width |-> IF rewind_state.rewind.is_64bit
                                                        THEN "Memory64" ELSE "Memory32"])
                              ELSE @]
    IN IF rewind_state.some /\ rewind_errno # "Success"
       THEN drop_run_guard(run_recycle(blocking_on_exit(
                [s1 EXCEPT !.pc = "done", !.act.code = rewind_errno], rewind_errno)), FALSE)
       ELSE IF "_start" \notin exports
       THEN drop_run_guard(run_recycle(blocking_on_exit(
                [s1 EXCEPT !.pc = "done", !.act.code = "Noexec"], "Noexec")), FALSE)
       ELSE LET s2 == [s1 EXCEPT !.start_calls = @ + 1, !.act.started = TRUE,
                                 !.act.outcome = outcome.kind,
                                 !.act.exit = outcome.code]
            IN IF outcome.kind = "DeepSleep"
               THEN deep_sleep(s2, outcome, schedule_ok)
               ELSE finish(s2, outcome)

----------------------------------------------------------------------------
\* Execution engine: actions

SetExec(s) ==
    /\ pc' = s.pc
    /\ status' = s.status
    /\ on_exit' = s.on_exit
    /\ recycle_runs' = s.recycle_runs
    /\ taint' = s.taint
    /\ start_calls' = s.start_calls
    /\ pending' = s.pending
    /\ applied' = s.applied
    /\ sleeps' = s.sleeps
    /\ act' = s.act

\* spawn_exec: union the file system, pick the command, compile, submit the task
spawn_exec(union_ok, command, load_ok, submit_ok) ==
    /\ pc = "new"
    /\ IF ~union_ok
       THEN /\ spawn' = [via |-> "spawn_exec", result |-> "Err(FileSystemError)"]
            /\ pc' = "spawn_failed"
            /\ UNCHANGED on_exit
       ELSE IF command = "none"
       THEN /\ spawn' = [via |-> "spawn_exec", result |-> "Err(MissingEntrypoint)"]
            /\ pc' = "spawn_failed"
            /\ on_exit' = Append(on_exit, "Noexec")
       ELSE IF ~load_ok
       THEN /\ spawn' = [via |-> "spawn_exec", result |-> "Err(ModuleLoad)"]
            /\ pc' = "spawn_failed"
            /\ on_exit' = Append(on_exit, "Noexec")
       ELSE IF ~submit_ok
       THEN /\ spawn' = [via |-> "spawn_exec", result |-> "Err(UnknownError)"]
            /\ pc' = "spawn_failed"
            /\ UNCHANGED on_exit
       ELSE /\ spawn' = [via |-> "spawn_exec", result |-> "Ok(join_handle)"]
            /\ pc' = "submitted"
            /\ UNCHANGED on_exit
    /\ UNCHANGED <<status, recycle_runs, has_recycle, taint, exports, start_calls, pending,
                   applied, sleeps, resolved, act, entry>>
    /\ UNCHANGED <<dlVars, cloneVars, envVars, lockVars>>

\* spawn_exec_wasm: compile the given bytes, submit the task
spawn_exec_wasm(load_ok, submit_ok) ==
    /\ pc = "new"
    /\ IF ~load_ok
       THEN /\ spawn' = [via |-> "spawn_exec_wasm", result |-> "Err(ModuleLoad)"]
            /\ pc' = "spawn_failed"
            /\ on_exit' = Append(on_exit, "Noexec")
       ELSE IF ~submit_ok
       THEN /\ spawn' = [via |-> "spawn_exec_wasm", result |-> "Err(UnknownError)"]
            /\ pc' = "spawn_failed"
            /\ UNCHANGED on_exit
       ELSE /\ spawn' = [via |-> "spawn_exec_wasm", result |-> "Ok(join_handle)"]
            /\ pc' = "submitted"
            /\ UNCHANGED on_exit
    /\ UNCHANGED <<status, recycle_runs, has_recycle, taint, exports, start_calls, pending,
                   applied, sleeps, resolved, act, entry>>
    /\ UNCHANGED <<dlVars, cloneVars, envVars, lockVars>>

\* what ctx.bootstrap may return: an error, no rewind state, or a rewind state
Bootstraps ==
    {[ok |-> FALSE, rewind_state |-> NoRewind], [ok |-> TRUE, rewind_state |-> NoRewind]} \cup
    {[ok |-> TRUE, rewind_state |-> SomeRewind(r, "RewindRestart", "")] : r \in Rewinds}

\* the entry steps of run_exec in the order it takes them: _initialize when
\* exported, bootstrap when _initialize did not fail, call_module when neither
\* failed
entry_steps(init_ok, boot) ==
    LET init == IF "_initialize" \in exports
                THEN <<[step |-> "_initialize", ok |-> init_ok]>> ELSE << >>
    IN IF "_initialize" \in exports /\ ~init_ok THEN init
       ELSE IF ~boot.ok THEN init \o <<[step |-> "bootstrap", ok |-> FALSE]>>
       ELSE init \o <<[step |-> "bootstrap", ok |-> TRUE],
                      [step |-> "call_module", ok |-> TRUE]>>

\* run_exec: the task body, up to the return of call_module
run_exec(init_ok, boot, rewind_errno, outcome, schedule_ok) ==
    /\ pc = "submitted"
    /\ outcome.kind = "DeepSleep" => Len(sleeps) < MaxSleeps
    /\ entry' = entry_steps(init_ok, boot)
    /\ IF "_initialize" \in exports /\ ~init_ok
       THEN SetExec(drop_run_guard(run_recycle(blocking_on_exit(
                set_status_finished([ExecState EXCEPT !.pc = "done"], FALSE, "InitializeError"),
                "Noexec")), FALSE))
       ELSE IF ~boot.ok
       THEN SetExec(drop_run_guard(run_recycle(blocking_on_exit(
                set_status_finished([ExecState EXCEPT !.pc = "done"], FALSE, "BootstrapError"),
                "Noexec")), FALSE))
       ELSE SetExec(call_module(ExecState, boot.rewind_state, rewind_errno, outcome,
                                schedule_ok))
    /\ UNCHANGED <<has_recycle, exports, resolved, spawn>>
    /\ UNCHANGED <<dlVars, cloneVars, envVars, lockVars>>

\* the task manager's poller: the trigger of the waiting continuation resolves
trigger_resolves(value) ==
    /\ pc = "suspended"
    /\ pending.some /\ ~pending.fired
    /\ pending' = [pending EXCEPT !.fired = TRUE, !.value = value]
    /\ resolved' = Append(resolved, value)
    /\ pc' = "triggered"
    /\ UNCHANGED <<status, on_exit, recycle_runs, has_recycle, taint, exports, start_calls,
                   applied, sleeps, act, entry, spawn>>
    /\ UNCHANGED <<dlVars, cloneVars, envVars, lockVars>>

\* the task manager runs the continuation it holds: respawn(ctx, store, rewind_result)
resume(rewind_errno, outcome, schedule_ok) ==
    /\ pc = "triggered"
    /\ pending.some /\ pending.fired
    /\ outcome.kind = "DeepSleep" => Len(sleeps) < MaxSleeps
    /\ SetExec(call_module([ExecState EXCEPT !.pending = NoCont],
                           respawn(pending.rewind, pending.value),
                           rewind_errno, outcome, schedule_ok))
    /\ UNCHANGED <<has_recycle, exports, resolved, entry, spawn>>
    /\ UNCHANGED <<dlVars, cloneVars, envVars, lockVars>>

ExecInit ==
    /\ pc = "new"
    /\ status = Pending
    /\ on_exit = << >>
    /\ recycle_runs = 0
    /\ has_recycle \in BOOLEAN
    /\ taint = << >>
    /\ exports \in SUBSET {"_start", "_initialize"}
    /\ start_calls = 0
    /\ pending = NoCont
    /\ applied = << >>
    /\ sleeps = << >>
    /\ resolved = << >>
    /\ act = NoAct
    /\ entry = << >>
    /\ spawn = [via |-> "", result |-> ""]

RewindErrnos == {"Success", "Fault"}

ExecNext ==
    \/ \E union_ok \in BOOLEAN, command \in {"named", "entrypoint", "none"},
          load_ok \in BOOLEAN, submit_ok \in BOOLEAN :
            spawn_exec(union_ok, command, load_ok, submit_ok)
    \/ \E load_ok \in BOOLEAN, submit_ok \in BOOLEAN : spawn_exec_wasm(load_ok, submit_ok)
    \/ \E init_ok \in BOOLEAN, boot \in Bootstraps, rewind_errno \in RewindErrnos,
          outcome \in Outcomes, schedule_ok \in BOOLEAN :
            run_exec(init_ok, boot, rewind_errno, outcome, schedule_ok)
    \/ \E value \in Values : trigger_resolves(value)
    \/ \E rewind_errno \in RewindErrnos, outcome \in Outcomes, schedule_ok \in BOOLEAN :
            resume(rewind_errno, outcome, schedule_ok)

----------------------------------------------------------------------------
\* Specifications

Init == DlInit /\ ExecInit

\* the loader syscalls of one guest process (its task is not followed)
InitDl == DlInit /\ ExecInit /\ has_recycle /\ exports = {"_start"}
SpecDl == InitDl /\ [][DlNext]_vars

\* one guest task, from spawn to its end (it makes no loader syscalls)
InitExec == DlInit /\ ExecInit /\ primary_exports_memory
SpecExec == InitExec /\ [][ExecNext]_vars

\* a guest's registry and a clone of it
InitClone == InitDl /\ primary_exports_memory
SpecClone == InitClone /\ [][CloneNext]_vars

\* the DlState operations of the guest's threads, step by step
InitLock == InitDl /\ primary_exports_memory
SpecLock == InitLock /\ [][LockNext]_vars

Next == DlNext \/ CloneNext \/ LockNext \/ ExecNext
Spec == Init /\ [][Next]_vars

----------------------------------------------------------------------------
\* Properties of the loader, checked under SpecDl

\* the exported global a (handle, symbol) pair names, if any
NamesGlobal(handle, symbol) ==
    /\ handle \in DOMAIN modules
    /\ symbol \in DOMAIN Globals(modules[handle].lib)
GlobalOf(handle, symbol) == Globals(modules[handle].lib)[symbol]
NamesIntegerGlobal(handle, symbol) ==
    /\ NamesGlobal(handle, symbol)
    /\ GlobalOf(handle, symbol).type \in {"i32", "i64"}

Issued == {issued[i] : i \in 1..Len(issued)}

\* C1: the handles add_module returns are strictly increasing, the first is 1,
\* and no handle is returned twice, also when the same module is registered
\* more than once.
C1_HandlesStrictlyIncreasing ==
    /\ issued # << >> => issued[1] = 1
    /\ \A i, j \in 1..Len(issued) : i < j => issued[i] < issued[j]
    /\ DOMAIN modules = Issued

\* two handles were issued for the same compiled module
C1_Witness ==
    /\ Len(issued) >= 2
    /\ modules[issued[1]].lib = modules[issued[2]].lib
    /\ issued[1] # issued[2]

\* the read the loader contract asks of lookup at offset O: 8 bytes if O is
\* 8-aligned and they fit, else 4 bytes if 4-aligned and they fit, else 1 byte
\* if it fits, else nothing
ContractWidth(O) ==
    IF O % 8 = 0 /\ O + 8 <= MemSize THEN 8
    ELSE IF O % 4 = 0 /\ O + 4 <= MemSize THEN 4
    ELSE IF O + 1 <= MemSize THEN 1
    ELSE 0
ContractLookup(m, O) ==
    IF ContractWidth(O) = 0 THEN None
    ELSE Some(ZeroExtend([i \in 1..ContractWidth(O) |-> m[O + i - 1]]))

\* a step that is a dlsym call which got as far as the lookup of an exported
\* integer global
LookupStep ==
    /\ sys'.op = "dlsym"
    /\ sys'.arg.kind = "ok"
    /\ NamesIntegerGlobal(sys'.handle, sys'.arg.str)
LookupOffset == AsUsize(GlobalOf(sys'.handle, sys'.arg.str).value)

\* C2: for a symbol naming an exported integer global with value O, lookup
\* returns the little-endian integer at O, zero-extended to 64 bits, read with
\* the width the contract chooses (8, 4 or 1 bytes by alignment and bounds).
C2_LookupReadsContractWidth ==
    [][LookupStep => sys'.lookup = ContractLookup(mem, LookupOffset)]_vars

\* C3: lookup never reads outside linear memory, and returns None when the
\* offset (a negative i32 converted included) leaves no byte in bounds.
C3_LookupStaysInBounds ==
    [][LookupStep =>
          /\ sys'.lookup.kind # "fault"
          /\ ~crashed'
          /\ LookupOffset + 1 > MemSize => sys'.lookup = None
          /\ sys'.lookup.kind = "some" =>
                \E w \in 1..8 :
                    /\ LookupOffset + w <= MemSize
                    /\ sys'.lookup = Some(ZeroExtend([i \in 1..w |-> mem[LookupOffset + i - 1]]))
      ]_vars

\* C4: dl_sym returns INVAL and writes nothing whenever lookup yields None,
\* which it does for handle 0, for a handle never issued, for a symbol that is
\* not an exported global of the handle's instance and for a global that is not
\* a 32- or 64-bit integer; it returns SUCCESS only having written the value
\* lookup yielded to out_value_ptr.
C4_DlsymInvalOnNone ==
    [][sys'.op = "dlsym" /\ sys'.arg.kind = "ok" =>
          /\ (\/ sys'.handle = 0
              \/ sys'.handle \notin Issued
              \/ ~NamesGlobal(sys'.handle, sys'.arg.str)
              \/ ~NamesIntegerGlobal(sys'.handle, sys'.arg.str)) => sys'.lookup = None
          /\ sys'.lookup = None => sys'.ret = "INVAL" /\ mem' = mem /\ ~sys'.wrote
          /\ sys'.ret = "SUCCESS" =>
                /\ sys'.lookup.kind = "some"
                /\ \E p \in ValuePtrs : MemWrite(mem, p, sys'.lookup.val) =
                                            [ok |-> TRUE, mem |-> mem']
          /\ mem' # mem => sys'.ret = "SUCCESS"
      ]_vars

\* dl_sym was refused for a registered handle and an exported global of an
\* unsupported type
C4_Witness ==
    /\ sys.op = "dlsym"
    /\ sys.handle \in DOMAIN modules
    /\ sys.arg = [kind |-> "ok", str |-> "gf"]
    /\ NamesGlobal(sys.handle, "gf")
    /\ sys.lookup = None
    /\ sys.ret = "INVAL"

\* the path a dl_open step read, and the file it names
PathRead == sys'.arg # NoArg
FileOf == FsRead(sys'.arg.str)

\* C5: dl_open reports a failure before registration in step order: a flag
\* other than NOW gives NOTSUP before the path is read; an unreadable or
\* non-UTF-8 path INVAL; a file read failure IO; a compile failure, a missing
\* primary memory or an instantiation failure INVAL; in each case guest memory
\* (out_handle_ptr) and the registry are unchanged and no handle is consumed.
C5_DlopenEarlyFailures ==
    [][sys'.op = "dlopen" /\ sys'.ret # "EARLY" =>
          /\ sys'.flags # "Now" => sys'.ret = "NOTSUP" /\ ~PathRead /\ sys'.registered = 0
          /\ sys'.flags = "Now" /\ sys'.arg.kind # "ok" =>
                sys'.ret = "INVAL" /\ sys'.registered = 0
          /\ sys'.flags = "Now" /\ sys'.arg.kind = "ok" /\ ~FileOf.ok =>
                sys'.ret = "IO" /\ sys'.registered = 0
          /\ sys'.flags = "Now" /\ sys'.arg.kind = "ok" /\ FileOf.ok
                /\ (\/ ~Compiles(FileOf.bytes)
                    \/ ~primary_exports_memory
                    \/ ~Instantiates(FileOf.bytes)) =>
                sys'.ret = "INVAL" /\ sys'.registered = 0
          /\ sys'.registered = 0 =>
                /\ mem' = mem
                /\ modules' = modules
                /\ next_handle' = next_handle
                /\ issued' = issued
                /\ ~sys'.wrote
      ]_vars

\* with a module already registered, dl_open failed at instantiation
C5_Witness ==
    /\ sys.op = "dlopen"
    /\ sys.arg = [kind |-> "ok", str |-> PathUnlinkable]
    /\ sys.ret = "INVAL"
    /\ sys.steps[Len(sys.steps)] = "instantiate"
    /\ Len(issued) = 1

\* the last dl_open registered a child whose __wasm_call_ctors failed
ChildCtorFailed ==
    /\ sys.op = "dlopen"
    /\ sys.registered # 0
    /\ sys.arg = [kind |-> "ok", str |-> PathTrap]

\* C6 as stated: when the child's __wasm_call_ctors fails during dl_open,
\* dl_open returns INVAL and the child's handle stays in the registry.
C6_CtorFailureReturnsInval ==
    ChildCtorFailed => sys.ret = "INVAL" /\ sys.registered \in DOMAIN modules

\* C6 as amended: when the child's __wasm_call_ctors fails during dl_open,
\* the failure is discarded: the child's handle stays in the registry, and
\* dl_open returns SUCCESS having written the handle (INVAL only when the
\* write of the handle fails).
C6_CtorFailureIsSwallowed ==
    ChildCtorFailed =>
        /\ sys.registered \in DOMAIN modules
        /\ modules[sys.registered].lib = "trap"
        /\ sys.registered \in TrappingCtors(modules)
        /\ ctor_calls[sys.registered] >= 1
        /\ sys.ret = IF sys.wrote THEN "SUCCESS" ELSE "INVAL"

C6_Witness ==
    /\ ChildCtorFailed
    /\ sys.ret = "SUCCESS"
    /\ sys.registered \in DOMAIN modules

----------------------------------------------------------------------------
\* Properties of the execution engine, checked under SpecExec

\* the recycler, when the task has one, has run exactly once
RecyclerRanOnce == recycle_runs = IF has_recycle THEN 1 ELSE 0

\* C7: when _start returns Ok, the thread ends Finished(Ok(SUCCESS)), on-exit
\* is run with SUCCESS, the recycler runs exactly once and the runtime is not
\* tainted.
C7_StartOkFinishesWithSuccess ==
    act.outcome = "Ok" =>
        /\ pc = "done"
        /\ status = Finished(TRUE, "Success")
        /\ on_exit = <<"Success">>
        /\ RecyclerRanOnce
        /\ taint = << >>

\* _start returned Ok, in a task that has a recycler and slept before
C7_Witness ==
    /\ act.outcome = "Ok"
    /\ has_recycle /\ recycle_runs = 1
    /\ Len(sleeps) >= 1
    /\ status = Finished(TRUE, "Success")

\* C8: for a guest that enters DeepSleep, any number of times, the recycler
\* does not run at suspension and has run exactly once at final termination;
\* it never runs more than once.
C8_RecyclerOnceAcrossDeepSleep ==
    /\ recycle_runs <= 1
    /\ pc \in {"suspended", "triggered"} => recycle_runs = 0
    /\ sleeps # << >> /\ pc = "done" => RecyclerRanOnce

\* a guest with a recycler slept twice and then terminated
C8_Witness ==
    /\ Len(sleeps) = 2
    /\ pc = "done"
    /\ has_recycle /\ recycle_runs = 1
    /\ act.started

\* C9: when _start ends with DeepSleep and the continuation is scheduled, the
\* call_module invocation returns without running on-exit or the recycler,
\* without tainting the runtime and without marking the thread Finished: the
\* thread status stays Running.
C9_DeepSleepReturnsQuietly ==
    [][pc' = "suspended" /\ pc # "suspended" =>
          /\ on_exit' = on_exit
          /\ recycle_runs' = recycle_runs
          /\ taint' = taint
          /\ status' = Running
          /\ sleeps' # sleeps
          /\ pending'.some
      ]_vars

\* the guest is suspended for the second time
C9_Witness ==
    /\ pc = "suspended"
    /\ Len(sleeps) = 2
    /\ status = Running
    /\ pending.some

\* the rewinds applied on re-entry by the respawn continuation
Resumed == SelectSeq(applied, LAMBDA a : a.type = "RewindWithResult")

\* C10: after a DeepSleep with trigger T and payload R the continuation runs
\* at most once and only after T has resolved, no _start runs between the
\* suspension and the resumption, and the re-entry applies exactly R with the
\* value V that T resolved with.
C10_ResumeAppliesCapturedRewind ==
    /\ Len(Resumed) <= Len(resolved)
    /\ Len(resolved) <= Len(sleeps)
    /\ \A k \in 1..Len(Resumed) :
          /\ Resumed[k].rewind = sleeps[k].rewind
          /\ Resumed[k].value = resolved[k]
    /\ start_calls <= Len(Resumed) + 1
    /\ pc \in {"suspended", "triggered"} =>
          /\ start_calls = Len(sleeps)
          /\ Len(Resumed) = Len(sleeps) - 1
          /\ pending.some
          /\ pending.rewind = sleeps[Len(sleeps)].rewind
          /\ pending.trigger = sleeps[Len(sleeps)].trigger
    /\ pc = "suspended" => ~pending.fired /\ Len(resolved) = Len(sleeps) - 1
    /\ pc = "triggered" => pending.fired /\ Len(resolved) = Len(sleeps)
    /\ pc \notin {"suspended", "triggered"} => ~pending.some

\* two suspensions with different payloads were resumed with different values
C10_Witness ==
    /\ Len(Resumed) = 2
    /\ Resumed[1].rewind # Resumed[2].rewind
    /\ Resumed[1].value # Resumed[2].value
    /\ start_calls = 3

\* C11: the runtime is tainted at the end of _start exactly when the outcome is
\* fatal: Exit(code) with a non-success code taints with NonZeroExitCode(code),
\* and on-exit is run with that code and the thread is Finished with the error
\* carrying it; an unclassified runtime error taints with RuntimeError; Ok,
\* Exit(success) and ThreadExit give exit code SUCCESS and no taint; DeepSleep
\* never taints.
C11_TaintExactlyWhenFatal ==
    /\ act.outcome = "Exit" /\ act.exit # "Success" =>
          /\ taint = <<[reason |-> "NonZeroExitCode", code |-> act.exit]>>
          /\ on_exit = <<act.exit>>
          /\ status = Finished(FALSE, act.exit)
    /\ act.outcome = "RuntimeError" => taint = <<[reason |-> "RuntimeError", code |-> ""]>>
    /\ \/ act.outcome \in {"Ok", "ThreadExit"}
       \/ act.outcome = "Exit" /\ act.exit = "Success"
       => taint = << >> /\ on_exit = <<"Success">> /\ status = Finished(TRUE, "Success")
    /\ act.outcome = "DeepSleep" \/ pc \in {"suspended", "triggered"} => taint = << >>
    /\ taint # << >> =>
          /\ Len(taint) = 1
          /\ \/ act.outcome = "Exit" /\ act.exit # "Success"
             \/ act.outcome \in {"RuntimeError", "UnknownWasiVersion"}

\* after a deep sleep, _start ended with Exit(7): tainted, exit code 7
C11_Witness ==
    /\ act.outcome = "Exit" /\ act.exit = "Code7"
    /\ taint = <<[reason |-> "NonZeroExitCode", code |-> "Code7"]>>
    /\ on_exit = <<"Code7">>
    /\ Len(sleeps) >= 1

\* C12: when _start fails with UnknownWasiVersion, the runtime is tainted with
\* UnknownWasiVersion and the exit code is NOEXEC: on-exit is run with NOEXEC,
\* the same code the thread is marked Finished with.
C12_UnknownWasiVersionExitsNoexec ==
    act.outcome = "UnknownWasiVersion" =>
        /\ taint = <<[reason |-> "UnknownWasiVersion", code |-> ""]>>
        /\ status.state = "Finished" /\ status.val = "Noexec"
        /\ on_exit = <<"Noexec">>
        /\ on_exit = <<status.val>>

\* call_module got as far as looking up _start in a module that does not
\* export it (a rewind, if any, was applied without error)
MissingStart ==
    /\ "_start" \notin exports
    /\ act.entered
    /\ act.code \notin (RewindErrnos \ {"Success"})

\* C13: when the module has no _start export, _start is never invoked, on-exit
\* is run with NOEXEC, the recycler runs once, and the thread ends Finished
\* with the error corresponding to NOEXEC.
C13_MissingStartFinishesNoexec ==
    MissingStart =>
        /\ start_calls = 0 /\ ~act.started
        /\ on_exit = <<"Noexec">>
        /\ RecyclerRanOnce
        /\ status = Finished(FALSE, "Noexec")

\* the SpawnError values spawn_exec fails with
SpawnErrors ==
    {"Err(FileSystemError)", "Err(MissingEntrypoint)", "Err(ModuleLoad)", "Err(UnknownError)"}

\* C14: every spawn-time failure of spawn_exec (file-system union, missing
\* entrypoint, module compilation, task submission) returns a typed SpawnError,
\* submits no guest task, and has the guest's exit recorded (on-exit run or
\* thread Finished) before the error is returned.
C14_SpawnFailureRecordsExit ==
    pc = "spawn_failed" =>
        /\ spawn.result \in SpawnErrors
        /\ ~act.entered /\ start_calls = 0
        /\ on_exit # << >> \/ status.state = "Finished"

----------------------------------------------------------------------------
\* Further properties of the loader, checked under SpecDl

\* what lookup gives for every handle and symbol a guest may ask for
Lookups == [h \in 0..MaxModules, s \in Symbols |-> get_symbol(h, s)]

HoldPrimaryMemory ==
    \A h \in DOMAIN modules :
        /\ modules[h].memory = PrimaryMemory
        /\ View(modules[h].memory) = mem

\* C16: in every reachable state the memory stored with every registered
\* module is the same memory object as the primary instance's linear memory,
\* so what the guest wrote through the primary's memory is what lookup reads
\* through the module's.
C16_ModulesShareThePrimaryMemory ==
    [][/\ HoldPrimaryMemory'
       /\ LookupStep /\ LookupOffset + ReadWidth <= MemSize =>
             sys'.lookup = Some(ZeroExtend([i \in 1..ReadWidth |-> mem[LookupOffset + i - 1]]))
      ]_vars

\* lookup through a module's memory returned bytes that dl_open had written
\* through the primary's memory
C16_Witness ==
    /\ sys.op = "dlsym" /\ sys.arg.kind = "ok"
    /\ NamesIntegerGlobal(sys.handle, sys.arg.str)
    /\ sys.lookup.kind = "some" /\ ~sys.wrote
    /\ LET O == AsUsize(GlobalOf(sys.handle, sys.arg.str).value) IN
         /\ O + ReadWidth <= MemSize
         /\ sys.lookup = Some(ZeroExtend([i \in 1..ReadWidth |-> mem[O + i - 1]]))
         /\ \E i \in O..(O + ReadWidth - 1) : mem[i] # InitMem[i]

\* the last dl_open registered a child that exports __wasm_call_ctors
ChildHasCtor ==
    /\ sys'.op = "dlopen"
    /\ sys'.registered # 0
    /\ "__wasm_call_ctors" \in Functions(modules'[sys'.registered].lib)

\* C20: during dl_open the child's __wasm_call_ctors runs while the
\* environment's active instance handles point at the child, and on every exit
\* path of dl_open (constructor success or failure) the handles are back at
\* the value they had before the call when control returns to the guest.
C20_CtorRunsUnderChildHandles ==
    [][/\ ChildHasCtor =>
             \E c \in sys'.ctors : /\ c.handle = sys'.registered
                                   /\ c.active = ChildInstance(sys'.registered)
       /\ sys'.op = "dlopen" => active' = active
      ]_vars

\* a dl_open step that got as far as register
Registers == sys'.op = "dlopen" /\ sys'.registered # 0
\* the modules of a registry that export __wasm_call_ctors
WithCtor(mods) == {h \in DOMAIN mods : "__wasm_call_ctors" \in Functions(mods[h].lib)}

C23_EachCtorCalledOnce ==
    /\ \A h \in WithCtor(modules) : ctor_calls[h] = 1
    /\ sys.op = "dlopen" /\ sys.registered # 0 =>
          {c.handle : c \in sys.ctors} = WithCtor(modules) \cap {sys.registered}

\* C25: each handle present in the registry was written to the guest's
\* out_handle_ptr by a dl_open call that returned SUCCESS; when writing the
\* handle fails, dl_open returns INVAL and leaves no module registered under a
\* handle the guest was never given.
C25_RegisteredHandlesWereWritten ==
    [][sys'.op = "dlopen" =>
          /\ \A h \in DOMAIN modules' \ DOMAIN modules :
                /\ sys'.ret = "SUCCESS" /\ sys'.wrote
                /\ \E p \in HandlePtrs :
                      MemWrite(mem, p, LeBytes(h, 4)) = [ok |-> TRUE, mem |-> mem']
          /\ Registers /\ ~sys'.wrote => sys'.ret = "INVAL"
          /\ sys'.ret = "INVAL" => modules' = modules
      ]_vars

----------------------------------------------------------------------------
\* Properties of a cloned registry, checked under SpecClone

\* C17: cloning a loader registry yields a registry with the same
\* handle-to-module map, next handle and last error as the original at clone
\* time, and afterwards the two are independent: a register on one changes
\* neither the map nor the next handle of the other.
C17_CloneIsEqualThenIndependent ==
    [][/\ ~copy.some /\ copy'.some =>
             /\ copy'.modules = modules
             /\ copy'.next_handle = next_handle
             /\ copy'.last_error = last_error
             /\ modules' = modules /\ next_handle' = next_handle /\ last_error' = last_error
       /\ copy.some /\ (modules' # modules \/ next_handle' # next_handle) =>
             /\ copy'.modules = copy.modules
             /\ copy'.next_handle = copy.next_handle
       /\ copy.some /\ (copy'.modules # copy.modules \/ copy'.next_handle # copy.next_handle) =>
             /\ modules' = modules
             /\ next_handle' = next_handle
      ]_vars

\* a registry holding one module was cloned, then each side registered a
\* different module under the same next handle
C17_Witness ==
    /\ copy.some
    /\ DOMAIN modules = {1, 2} /\ DOMAIN copy.modules = {1, 2}
    /\ copy.modules[1] = modules[1]
    /\ copy.modules[2].lib # modules[2].lib
    /\ copy.next_handle = 3 /\ next_handle = 3

----------------------------------------------------------------------------
\* Further properties of the execution engine, checked under SpecExec

\* the entry step that failed, if any, and the error the thread is finished with
EntryFailed == entry # << >> /\ ~entry[Len(entry)].ok
EntryError == IF entry[Len(entry)].step = "_initialize" THEN "InitializeError"
              ELSE "BootstrapError"
EntryOrder(step) ==
    CASE step = "_initialize" -> 1 [] step = "bootstrap" -> 2 [] OTHER -> 3

\* C18: run_exec takes the entry steps in the order _initialize (if exported),
\* bootstrap, _start: if _initialize fails, or if bootstrap fails, _start is
\* never invoked, the thread is marked Finished with that error, on-exit is
\* run with NOEXEC, and the recycler runs exactly once.
C18_EntryStepsInOrder ==
    /\ \A i, j \in 1..Len(entry) : i < j =>
          /\ EntryOrder(entry[i].step) < EntryOrder(entry[j].step)
          /\ entry[i].ok
    /\ entry # << >> =>
          ("_initialize" \in exports <=> entry[1].step = "_initialize")
    /\ act.entered \/ start_calls > 0 =>
          /\ entry # << >> /\ entry[Len(entry)].step = "call_module"
          /\ \E i \in 1..Len(entry) : entry[i].step = "bootstrap"
    /\ EntryFailed =>
          /\ start_calls = 0 /\ ~act.entered /\ ~act.started
          /\ status = Finished(FALSE, EntryError)
          /\ on_exit = <<"Noexec">>
          /\ RecyclerRanOnce
          /\ pc = "done"

\* _initialize succeeded and bootstrap failed, in a task with a recycler
C18_Witness ==
    /\ entry = <<[step |-> "_initialize", ok |-> TRUE], [step |-> "bootstrap", ok |-> FALSE]>>
    /\ has_recycle /\ recycle_runs = 1
    /\ status = Finished(FALSE, "BootstrapError")
    /\ start_calls = 0

\* C19: when resume_wasm_after_poller itself fails after a DeepSleep, the
\* failure is only logged: the thread is not marked Finished (it stays
\* Running), and neither on-exit nor the recycler runs; no continuation is
\* left to run them later.
C19_FailedResumeLeavesThreadRunning ==
    [][pc' = "abandoned" =>
          /\ act'.outcome = "DeepSleep"
          /\ status' = Running
          /\ on_exit' = << >>
          /\ recycle_runs' = 0
          /\ taint' = << >>
          /\ ~pending'.some
      ]_vars

\* scheduling the continuation failed at the second deep sleep of a task that
\* has a recycler
C19_Witness ==
    /\ pc = "abandoned"
    /\ Len(sleeps) = 2
    /\ has_recycle /\ recycle_runs = 0
    /\ status = Running
    /\ on_exit = << >>

----------------------------------------------------------------------------
\* Properties of the lock of the module map, checked under SpecLock

\* thread t waits in self.modules.lock()
WaitsForGuard(t) == stack[t] # << >> /\ Top(t).pc = "lock"

\* C22: every registry operation holds the registry's guard only for the map
\* access: in lookup, the read of the global and the read of linear memory
\* happen after the guard has been released, so no other thread's registry
\* operation is blocked while lookup reads memory.
C22_LookupReadsWithGuardReleased ==
    \A t \in Threads :
        At(t, "get_symbol", "read") =>
            /\ guard # t
            /\ \A u \in Threads \ {t} : WaitsForGuard(u) => guard = 0

\* C24: a constructor or destructor running under register / call_destructors
\* that itself invokes dl_open or dl_sym on the same registry always returns:
\* no registry operation waits on the guard while the guard is held by the
\* same thread's enclosing registry operation.
C24_NoWaitOnOwnGuard ==
    \A t \in Threads : WaitsForGuard(t) => guard # t

====
